---- MODULE Spec2Model ----
(***************************************************************************)
(* Credential / session lifecycle of the user service: the in-memory       *)
(* password-reset token store, the session authenticator and the           *)
(* use-cases that orchestrate them over the users / sessions tables.       *)
(*                                                                         *)
(* Every request is handled against its own database session: pending      *)
(* writes become visible at db.commit() and are discarded by               *)
(* db.rollback(), so between requests the tables hold exactly what was     *)
(* committed.  The reset-token store is a process-wide dict and is not     *)
(* part of any transaction.                                                *)
(***************************************************************************)
EXTENDS Integers, Sequences, FiniteSets, TLC

\* Python's None for optional string values.
None == "None"

\* Absent password argument of a request that carries none.
NoPassword == <<>>

-----------------------------------------------------------------------------
(* Bounds of the model *)

NumEmails == 2
NumTokens == 1
NumSessionTokens == 2
MaxUsers == 2
TickMinutes == 15
MaxNow == 30

EmailPool == <<"alice@x.com", "bob@x.com", "carol@x.com">>
TokenPool == <<"aB3d", "Zk9Q", "m0Pq">>
SessionTokenPool == <<"S1aaaaaaaaaaaaaaaaaaaaaaaaaaaaaaa", "S2bbbbbbbbbbbbbbbbbbbbbbbbbbbbbbb",
                      "S3ccccccccccccccccccccccccccccccc">>

Emails == {EmailPool[i] : i \in 1..NumEmails}
\* values of generate_verification_token(4) the model draws
Tokens == {TokenPool[i] : i \in 1..NumTokens}
\* values of generate_verification_token(32) the model draws
SessionTokens == {SessionTokenPool[i] : i \in 1..NumSessionTokens}
\* strings of length 4 and of length 32 over the generator's alphabet
ShortTokens == {TokenPool[i] : i \in DOMAIN TokenPool}
LongTokens == {SessionTokenPool[i] : i \in DOMAIN SessionTokenPool}
\* session tokens a client may present: generated ones and the empty string
PresentedSessionTokens == SessionTokens \cup {""}

Names == {"Alice", "Bob"}
BlankName == "   "

\* Passwords, as sequences of characters.
PwAbcd == <<"A","b","c","d","1","2","3","!">>              \* "Abcd123!"
PwNew == <<"N","e","w","p","a","s","s","1","!">>           \* "Newpass1!"
PwWeak == <<"w","e","a","k">>                              \* "weak"
PwNoSymbol == <<"P","a","s","s","w","o","r","d","1">>      \* "Password1"
StrongPasswords == {PwAbcd, PwNew}
WeakPasswords == {PwWeak}
Passwords == StrongPasswords \cup WeakPasswords

-----------------------------------------------------------------------------
(* utils/response.py *)

create_response(status, message, data, status_code) ==
    [kind |-> "response", status |-> status, message |-> message,
     data |-> data, status_code |-> status_code]

session_token_invalid_response ==
    create_response("error", "Credenciales expiradas, cerrando sesión.", {}, 401)

\* fastapi.HTTPException raised out of a use-case
HTTPException(status_code, detail) ==
    [kind |-> "HTTPException", status |-> None, message |-> detail,
     data |-> {}, status_code |-> status_code]

-----------------------------------------------------------------------------
(* domain/validators.py *)

UpperChars == {"A","B","C","D","E","F","G","H","I","J","K","L","M",
               "N","O","P","Q","R","S","T","U","V","W","X","Y","Z"}
LowerChars == {"a","b","c","d","e","f","g","h","i","j","k","l","m",
               "n","o","p","q","r","s","t","u","v","w","x","y","z"}
DigitChars == {"0","1","2","3","4","5","6","7","8","9"}

\* re.search(class, password)
HasChar(password, class) == \E i \in 1..Len(password) : password[i] \in class
\* re.search(r'[\W_]', password): a non-word character or the underscore
HasSpecial(password) ==
    \E i \in 1..Len(password) :
        password[i] \notin (UpperChars \cup LowerChars \cup DigitChars)

MinPasswordLength == 8

\* Returns None when the password is valid, the error message otherwise.
validate_password_strength(password) ==
    IF Len(password) < MinPasswordLength
    THEN "La contraseña debe tener al menos 8 caracteres"
    ELSE IF ~HasChar(password, UpperChars)
    THEN "La contraseña debe incluir al menos una letra mayúscula"
    ELSE IF ~HasChar(password, LowerChars)
    THEN "La contraseña debe incluir al menos una letra minúscula"
    ELSE IF ~HasChar(password, DigitChars)
    THEN "La contraseña debe incluir al menos un número"
    ELSE IF ~HasSpecial(password)
    THEN "La contraseña debe incluir al menos un carácter especial"
    ELSE None

validate_name(name) ==
    IF name = None \/ name = "" \/ name = BlankName
    THEN "El nombre no puede estar vacío"
    ELSE None

validate_password_confirmation(password, password_confirmation) ==
    IF password # password_confirmation THEN "Las contraseñas no coinciden" ELSE None

validate_user_registration(name, password, password_confirmation) ==
    IF validate_name(name) # None THEN validate_name(name)
    ELSE IF validate_password_confirmation(password, password_confirmation) # None
    THEN validate_password_confirmation(password, password_confirmation)
    ELSE validate_password_strength(password)

\* Python truth value of an Optional[str]
Truthy(v) == v # None /\ v # ""

-----------------------------------------------------------------------------
(* utils/security.py *)

\* Argon2 hash: opaque, carries what verify() needs to recognise the plaintext.
hash_password(password) == [alg |-> "argon2id", plain |-> password]

\* Variant that accepts any plaintext for a well-formed hash.
verify_password_any_plaintext(plain_password, hashed_password) ==
    hashed_password.alg = "argon2id"

verify_password(plain_password, hashed_password) ==
    hashed_password.alg = "argon2id" /\ hashed_password.plain = plain_password

-----------------------------------------------------------------------------
(* State *)

VARIABLES
    users,          \* users table: user_id -> row
    sessions,       \* user_sessions table: set of rows [session_token, user_id]
    devices,        \* user_devices table: set of rows [user_id, fcm_token]
    user_states,    \* user_states table: set of rows [user_state_id, name]
    next_user_id,   \* autoincrement of users.user_id
    reset_tokens,   \* PasswordResetTokenService._reset_tokens: token -> [expires_at, email]
    now,            \* datetime.now(bogota_tz), in minutes
    last,           \* the request handled last and what its caller received
    threads         \* the reset-password calls that threadpool workers run step by step

vars == <<users, sessions, devices, user_states, next_user_id, reset_tokens, now, last,
          threads>>

\* UserStateConstants
VERIFIED == "Verificado"
UNVERIFIED == "No Verificado"
SUSPENDED == "Suspendido"

AllUserStates ==
    { [user_state_id |-> 1, name |-> UNVERIFIED],
      [user_state_id |-> 2, name |-> VERIFIED],
      [user_state_id |-> 3, name |-> SUSPENDED] }

\* .filter(UserStates.name == state_name).first(): the rows found (none or one)
get_user_state_by_name(state_name) == {s \in user_states : s.name = state_name}

StateNameOf(user) ==
    LET rows == {s \in AllUserStates : s.user_state_id = user.user_state_id}
    IN (CHOOSE s \in rows : TRUE).name

-----------------------------------------------------------------------------
(* Requests and replies *)

BaseRequest ==
    [op |-> "none", email |-> None, token |-> None, session_token |-> None,
     name |-> None, password |-> NoPassword, confirm |-> NoPassword,
     current |-> NoPassword, fcm_token |-> None]

NoResponse == [kind |-> "none", status |-> None, message |-> None, data |-> {}, status_code |-> 0]

\* token: the reset or verification token the request carried
\* fault: the failure of a collaborator that occurred while handling the request
\* db: the calls of db.commit() and db.rollback() made while handling the request
HandledDb(request, fault, response, commits, rollbacks) ==
    /\ last' = [op |-> request.op, token |-> request.token, fault |-> fault,
                response |-> response,
                db |-> [commits |-> commits, rollbacks |-> rollbacks]]
    \* a request handled in one piece leaves the step-by-step workers alone
    /\ threads' = threads

\* no commit and no rollback on the path
Handled(request, fault, response) == HandledDb(request, fault, response, 0, 0)

\* db.commit() returned; no rollback follows
HandledCommitted(request, fault, response) == HandledDb(request, fault, response, 1, 0)

\* db.commit() was called and an except clause called db.rollback()
HandledRolledBack(request, fault, response) == HandledDb(request, fault, response, 1, 1)

\* an except clause called db.rollback() before any commit
HandledRollbackOnly(request, fault, response) == HandledDb(request, fault, response, 0, 1)

Faults == {"none", "commit", "send", "remove", "device", "welcome", "state"}

NumThreads == 2

\* workers of the threadpool that run the synchronous endpoints
Threads == 1..NumThreads

\* a worker that is running no reset-password call
IdleThread ==
    [pc |-> "idle", token |-> None, password |-> NoPassword, uid |-> 0,
     response |-> NoResponse]

NoThreads == [t \in Threads |-> IdleThread]

-----------------------------------------------------------------------------
(* domain/services/password_reset_token_service.py *)

\* expiration_minutes passed by ForgotPasswordUseCase._store_reset_token
ExpirationMinutes == 15

store_token(store, token, email, expiration_minutes) ==
    [t \in DOMAIN store \cup {token} |->
        IF t = token
        THEN [expires_at |-> now + expiration_minutes, email |-> email]
        ELSE store[t]]

remove_token(store, token) ==
    [t \in DOMAIN store \ {token} |-> store[t]]

\* Variant that already expires an entry at the instant expires_at.
is_token_valid_expired_at_deadline(store, token) ==
    IF token \notin DOMAIN store
    THEN [valid |-> FALSE, store |-> store]
    ELSE IF now >= store[token].expires_at
    THEN [valid |-> FALSE, store |-> remove_token(store, token)]
    ELSE [valid |-> TRUE, store |-> store]

\* Variant that sweeps every expired entry when it meets an expired one.
is_token_valid_sweeping(store, token) ==
    IF token \notin DOMAIN store
    THEN [valid |-> FALSE, store |-> store]
    ELSE IF now > store[token].expires_at
    THEN [valid |-> FALSE,
          store |-> [t \in {u \in DOMAIN store : ~(now > store[u].expires_at)} |-> store[t]]]
    ELSE [valid |-> TRUE, store |-> store]

\* The value returned and the store left behind (an expired entry is removed).
is_token_valid(store, token) ==
    IF token \notin DOMAIN store
    THEN [valid |-> FALSE, store |-> store]
    ELSE IF now > store[token].expires_at
    THEN [valid |-> FALSE, store |-> remove_token(store, token)]
    ELSE [valid |-> TRUE, store |-> store]

-----------------------------------------------------------------------------
(* domain/user_repository.py *)

\* .filter(Users.email == email).first(): users.email is unique
find_by_email(email) == {uid \in DOMAIN users : users[uid].email = email}

\* .filter(Users.verification_token == token): every row .first() may return
find_by_verification_token(token) ==
    {uid \in DOMAIN users : users[uid].verification_token = token}

-----------------------------------------------------------------------------
(* use_cases/forgot_password_use_case.py *)

ForgotPassword(email, reset_token, fault) ==
    LET request == [BaseRequest EXCEPT !.op = "forgot_password", !.email = email]
        found == find_by_email(email)
    IN
    IF found = {}
    THEN /\ fault = "none"
         /\ reset_token = None
         /\ Handled(request, "none", create_response("error", "Correo no encontrado", {}, 200))
         /\ UNCHANGED <<users, sessions, devices, user_states, next_user_id, reset_tokens, now>>
    ELSE \E uid \in found :
         \* _store_reset_token: the row is written, the store entry is made, then commit
         /\ reset_token \in ShortTokens
         /\ reset_tokens' = store_token(reset_tokens, reset_token, email, ExpirationMinutes)
         /\ IF fault = "commit"
            THEN \* commit raised: rollback discards the pending write
                 /\ users' = users
                 /\ HandledRolledBack(request, "commit",
                            HTTPException(500, "Error sending password reset email"))
            ELSE /\ users' = [users EXCEPT ![uid].verification_token = reset_token]
                 /\ IF fault = "send"
                    THEN \* nothing is pending any more: rollback changes nothing
                         HandledRolledBack(request, "send",
                                 HTTPException(500, "Error sending password reset email"))
                    ELSE HandledCommitted(request, "none",
                                 create_response("success",
                                     "Correo electrónico de restablecimiento de contraseña enviado",
                                     {}, 200))
         /\ UNCHANGED <<sessions, devices, user_states, next_user_id, now>>

-----------------------------------------------------------------------------
(* use_cases/verify_reset_token_use_case.py *)

VerifyResetToken(token) ==
    LET request == [BaseRequest EXCEPT !.op = "verify_reset_token", !.token = token]
        checked == is_token_valid(reset_tokens, token)
    IN
    /\ reset_tokens' = checked.store
    /\ IF checked.valid
       THEN Handled(request, "none",
                    create_response("success",
                        "Token válido. Puede proceder a restablecer la contraseña.", {}, 200))
       ELSE Handled(request, "none", create_response("error", "Token inválido o expirado", {}, 200))
    /\ UNCHANGED <<users, sessions, devices, user_states, next_user_id, now>>

-----------------------------------------------------------------------------
(* use_cases/reset_password_use_case.py *)

passwords_match(password, confirm_password) == password = confirm_password

\* ResetPasswordUseCase._is_password_strong: hands back the validator's return value
is_password_strong(password) == validate_password_strength(password)

WeakPasswordMessage ==
    "La nueva contraseña debe tener al menos 8 caracteres, incluir una letra mayúscula, una letra minúscula, un número y un carácter especial"

ResetPassword(token, new_password, confirm_password, fault) ==
    LET request == [BaseRequest EXCEPT !.op = "reset_password", !.token = token,
                                       !.password = new_password,
                                       !.confirm = confirm_password]
        checked == is_token_valid(reset_tokens, token)
        found == find_by_verification_token(token)
    IN
    IF ~passwords_match(new_password, confirm_password)
    THEN /\ fault = "none"
         /\ Handled(request, "none", create_response("error", "Las contraseñas no coinciden", {}, 200))
         /\ UNCHANGED <<users, sessions, devices, user_states, next_user_id, reset_tokens, now>>
    ELSE IF ~Truthy(is_password_strong(new_password))
    THEN /\ fault = "none"
         /\ Handled(request, "none", create_response("error", WeakPasswordMessage, {}, 200))
         /\ UNCHANGED <<users, sessions, devices, user_states, next_user_id, reset_tokens, now>>
    ELSE IF ~checked.valid
    THEN /\ fault = "none"
         /\ reset_tokens' = checked.store
         /\ Handled(request, "none", create_response("error", "Token inválido o expirado", {}, 200))
         /\ UNCHANGED <<users, sessions, devices, user_states, next_user_id, now>>
    ELSE IF found = {}
    THEN /\ fault = "none"
         /\ Handled(request, "none", create_response("error", "Usuario no encontrado", {}, 200))
         /\ UNCHANGED <<users, sessions, devices, user_states, next_user_id, reset_tokens, now>>
    ELSE \E uid \in found :
         \* _update_user_password, then _cleanup_token: clear the row's token, commit,
         \* remove the store entry
         /\ IF fault = "commit"
            THEN /\ users' = users
                 /\ reset_tokens' = reset_tokens
                 /\ HandledRolledBack(request, "commit",
                            HTTPException(500, "Error al restablecer la contraseña"))
            ELSE /\ users' = [users EXCEPT ![uid].password_hash = hash_password(new_password),
                                           ![uid].verification_token = None]
                 /\ IF fault = "remove"
                    THEN /\ reset_tokens' = reset_tokens
                         /\ HandledRolledBack(request, "remove",
                                    HTTPException(500, "Error al restablecer la contraseña"))
                    ELSE /\ reset_tokens' = remove_token(reset_tokens, token)
                         /\ HandledCommitted(request, "none",
                                    create_response("success",
                                        "Contraseña restablecida exitosamente", {}, 200))
         /\ UNCHANGED <<sessions, devices, user_states, next_user_id, now>>

-----------------------------------------------------------------------------
(* domain/services/verify_session_token_service.py *)

\* Variant whose join drops the filter on the token.
verify_session_token_unfiltered(session_token) ==
    {uid \in DOMAIN users : \E s \in sessions : s.user_id = uid}

\* select(Users).join(UserSessions).where(session_token == ...): the users found
verify_session_token(session_token) ==
    {uid \in DOMAIN users :
        \E s \in sessions : s.session_token = session_token /\ s.user_id = uid}

-----------------------------------------------------------------------------
(* use_cases/login_use_case.py *)

\* Variant that finds the account by email and never checks the password.
authenticate_user_by_email_only(email, password) ==
    {uid \in DOMAIN users : users[uid].email = email}

authenticate_user(email, password) ==
    {uid \in DOMAIN users :
        users[uid].email = email /\ verify_password(password, users[uid].password_hash)}

\* Variant that only looks the Verified state up and never compares it.
check_user_verification_status_uncompared(uid) ==
    get_user_state_by_name(VERIFIED) # {}

check_user_verification_status(uid) ==
    LET verified_user_state == get_user_state_by_name(VERIFIED)
    IN /\ verified_user_state # {}
       /\ \E s \in verified_user_state : users[uid].user_state_id = s.user_state_id

\* Variant whose rollback takes the token back when the email cannot be sent.
send_new_verification_token_undone(uid, generated, fault) ==
    IF fault \in {"commit", "send"}
    THEN users
    ELSE [users EXCEPT ![uid].verification_token = generated]

\* The users table _send_new_verification_token leaves behind: the token is
\* committed before the email is sent, so only a failing commit loses it.
send_new_verification_token(uid, generated, fault) ==
    IF fault = "commit"
    THEN users
    ELSE [users EXCEPT ![uid].verification_token = generated]

\* user_sessions.session_token is unique: may a row with this token be inserted
session_token_unique(session_token) ==
    ~\E s \in sessions : s.session_token = session_token

\* Variant that replaces the sessions the account already has.
create_user_session_replacing(uid, session_token) ==
    {s \in sessions : s.user_id # uid}
        \cup {[session_token |-> session_token, user_id |-> uid]}

\* db.add(UserSessions(user_id, session_token)): the table once committed
create_user_session(uid, session_token) ==
    sessions \cup {[session_token |-> session_token, user_id |-> uid]}

\* generated: what generate_verification_token returns on the path taken
\* (4 characters for a new verification token, 32 for a session token)
Login(email, password, fcm_token, generated, fault) ==
    LET request == [BaseRequest EXCEPT !.op = "login", !.email = email,
                                       !.password = password, !.fcm_token = fcm_token]
        found == authenticate_user(email, password)
    IN
    IF found = {}
    THEN /\ fault = "none"
         /\ generated = None
         /\ Handled(request, "none", create_response("error", "Credenciales incorrectas", {}, 200))
         /\ UNCHANGED <<users, sessions, devices, user_states, next_user_id, reset_tokens, now>>
    ELSE \E uid \in found :
         IF ~check_user_verification_status(uid)
         THEN \* _send_new_verification_token: write the token, commit, send the email
              /\ generated \in ShortTokens
              /\ fault \in {"none", "commit", "send"}
              /\ IF fault = "commit"
                 THEN /\ users' = users
                      /\ HandledRolledBack(request, "commit",
                                 HTTPException(500, "Error al enviar el nuevo correo de verificación"))
                 ELSE /\ users' = send_new_verification_token(uid, generated, fault)
                      /\ IF fault = "send"
                         THEN HandledRolledBack(request, "send",
                                 HTTPException(500, "Error al enviar el nuevo correo de verificación"))
                         ELSE HandledCommitted(request, "none",
                                 create_response("error",
                                     "Debes verificar tu correo antes de iniciar sesión", {}, 200))
              /\ UNCHANGED <<sessions, devices, user_states, next_user_id, reset_tokens, now>>
         ELSE \* _create_user_session, _register_user_device, commit
              /\ generated \in LongTokens
              /\ fault \in {"none", "commit", "device"}
              /\ fault = "device" => fcm_token # None
              /\ LET new_devices == IF fcm_token = None THEN {}
                                    ELSE {[user_id |-> uid, fcm_token |-> fcm_token]}
                     \* a duplicate session token fails the commit
                     duplicate == ~session_token_unique(generated)
                 IN IF fault = "device"
                    THEN /\ UNCHANGED <<sessions, devices>>
                         /\ HandledRollbackOnly(request, "device",
                                    HTTPException(500, "Error durante el inicio de sesión"))
                    ELSE IF fault = "commit" \/ duplicate
                    THEN /\ UNCHANGED <<sessions, devices>>
                         /\ HandledRolledBack(request, "commit",
                                    HTTPException(500, "Error durante el inicio de sesión"))
                    ELSE /\ sessions' = create_user_session(uid, generated)
                         /\ devices' = devices \cup new_devices
                         /\ HandledCommitted(request, "none",
                                    create_response("success", "Inicio de sesión exitoso",
                                        {<<"session_token", generated>>,
                                         <<"name", users[uid].name>>}, 200))
              /\ UNCHANGED <<users, user_states, next_user_id, reset_tokens, now>>

-----------------------------------------------------------------------------
(* use_cases/logout_use_case.py *)

\* Variant that leaves the row in the table.
delete_session_skipped(session) == sessions

\* Variant that ends every session of the account.
delete_session_of_account(session) == {s \in sessions : s.user_id # session.user_id}

\* db.delete(session)
delete_session(session) == sessions \ {session}

Logout(session_token, fault) ==
    LET request == [BaseRequest EXCEPT !.op = "logout", !.session_token = session_token]
        found == {s \in sessions : s.session_token = session_token}
    IN
    IF found = {}
    THEN /\ fault = "none"
         /\ Handled(request, "none", session_token_invalid_response)
         /\ UNCHANGED <<users, sessions, devices, user_states, next_user_id, reset_tokens, now>>
    ELSE \E session \in found :
         /\ IF fault = "commit"
            THEN /\ sessions' = sessions
                 /\ HandledRolledBack(request, "commit", HTTPException(500, "Error durante el cierre de sesión"))
            ELSE /\ sessions' = delete_session(session)
                 /\ HandledCommitted(request, "none",
                            create_response("success", "Cierre de sesión exitoso", {}, 200))
         /\ UNCHANGED <<users, devices, user_states, next_user_id, reset_tokens, now>>

-----------------------------------------------------------------------------
(* use_cases/change_password_use_case.py *)

ChangePassword(session_token, current_password, new_password, fault) ==
    LET request == [BaseRequest EXCEPT !.op = "change_password",
                                       !.session_token = session_token,
                                       !.current = current_password,
                                       !.password = new_password]
        found == verify_session_token(session_token)
        password_error == validate_password_strength(new_password)
    IN
    IF found = {}
    THEN /\ fault = "none"
         /\ Handled(request, "none", session_token_invalid_response)
         /\ UNCHANGED <<users, sessions, devices, user_states, next_user_id, reset_tokens, now>>
    ELSE \E uid \in found :
         IF ~verify_password(current_password, users[uid].password_hash)
         THEN /\ fault = "none"
              /\ Handled(request, "none", create_response("error", "Credenciales incorrectas", {}, 200))
              /\ UNCHANGED <<users, sessions, devices, user_states, next_user_id, reset_tokens, now>>
         ELSE IF Truthy(password_error)
         THEN /\ fault = "none"
              /\ Handled(request, "none", create_response("error", password_error, {}, 200))
              /\ UNCHANGED <<users, sessions, devices, user_states, next_user_id, reset_tokens, now>>
         ELSE /\ IF fault = "commit"
                 THEN /\ users' = users
                      /\ HandledRolledBack(request, "commit", HTTPException(500, "Error al cambiar la contraseña"))
                 ELSE /\ users' = [users EXCEPT ![uid].password_hash = hash_password(new_password)]
                      /\ HandledCommitted(request, "none",
                                 create_response("success", "Cambio de contraseña exitoso", {}, 200))
              /\ UNCHANGED <<sessions, devices, user_states, next_user_id, reset_tokens, now>>

-----------------------------------------------------------------------------
(* use_cases/update_profile_use_case.py *)

UpdateProfile(session_token, new_name, fault) ==
    LET request == [BaseRequest EXCEPT !.op = "update_profile",
                                       !.session_token = session_token, !.name = new_name]
        found == verify_session_token(session_token)
        name_error == validate_name(new_name)
    IN
    IF found = {}
    THEN /\ fault = "none"
         /\ Handled(request, "none", session_token_invalid_response)
         /\ UNCHANGED <<users, sessions, devices, user_states, next_user_id, reset_tokens, now>>
    ELSE \E uid \in found :
         IF Truthy(name_error)
         THEN /\ fault = "none"
              /\ Handled(request, "none", create_response("error", name_error, {}, 200))
              /\ UNCHANGED <<users, sessions, devices, user_states, next_user_id, reset_tokens, now>>
         ELSE /\ IF fault = "commit"
                 THEN /\ users' = users
                      /\ HandledRolledBack(request, "commit", HTTPException(500, "Error al actualizar el perfil"))
                 ELSE /\ users' = [users EXCEPT ![uid].name = new_name]
                      /\ HandledCommitted(request, "none",
                                 create_response("success", "Perfil actualizado exitosamente", {}, 200))
              /\ UNCHANGED <<sessions, devices, user_states, next_user_id, reset_tokens, now>>

-----------------------------------------------------------------------------
(* use_cases/delete_account_use_case.py *)

\* Variant that blanks the row and keeps it.
delete_user_soft(uid) == [users EXCEPT ![uid].verification_token = None]

\* db.delete(user)
delete_user(uid) == [u \in DOMAIN users \ {uid} |-> users[u]]

\* The rows of a table that refers to users, once the user's own are deleted with it.
cascade_delete(rows, uid) == {r \in rows : r.user_id # uid}

DeleteAccount(session_token, fault) ==
    LET request == [BaseRequest EXCEPT !.op = "delete_account", !.session_token = session_token]
        found == verify_session_token(session_token)
    IN
    IF found = {}
    THEN /\ fault = "none"
         /\ Handled(request, "none", session_token_invalid_response)
         /\ UNCHANGED <<users, sessions, devices, user_states, next_user_id, reset_tokens, now>>
    ELSE \E uid \in found :
         /\ IF fault = "commit"
            THEN /\ UNCHANGED <<users, sessions, devices>>
                 /\ HandledRolledBack(request, "commit", HTTPException(500, "Error eliminando cuenta"))
            ELSE \* db.delete(user) cascades to the user's sessions and devices
                 /\ users' = delete_user(uid)
                 /\ sessions' = cascade_delete(sessions, uid)
                 /\ devices' = cascade_delete(devices, uid)
                 /\ HandledCommitted(request, "none",
                            create_response("success", "Cuenta eliminada exitosamente", {}, 200))
         /\ UNCHANGED <<user_states, next_user_id, reset_tokens, now>>

-----------------------------------------------------------------------------
(* domain/entities/user_state.py *)

\* str.lower() on the state names the table holds
LowerName(name) ==
    CASE name = VERIFIED -> "verificado"
      [] name = UNVERIFIED -> "no verificado"
      [] name = SUSPENDED -> "suspendido"
      [] OTHER -> name

UserState_is_unverified(name) ==
    LowerName(name) \in {"no verificado", "unverified", "pendiente", "pending"}

\* Variant that takes any existing row for an unverified one.
is_unverified_any_state(uid) == uid \in DOMAIN users

\* UserEntity.is_unverified: the row's state, loaded through the relationship
is_unverified(uid) ==
    \E s \in user_states :
        s.user_state_id = users[uid].user_state_id /\ UserState_is_unverified(s.name)

-----------------------------------------------------------------------------
(* use_cases/register_user_use_case.py, domain/services/user_service.py *)

Register(name, email, password, password_confirmation, verification_token, fault) ==
    LET request == [BaseRequest EXCEPT !.op = "register", !.name = name, !.email = email,
                                       !.password = password,
                                       !.confirm = password_confirmation]
        validation_error == validate_user_registration(name, password, password_confirmation)
        existing_user == find_by_email(email)
        user_registry_state == get_user_state_by_name(UNVERIFIED)
    IN
    IF Truthy(validation_error)
    THEN /\ fault = "none"
         /\ verification_token = None
         /\ Handled(request, "none", create_response("error", validation_error, {}, 200))
         /\ UNCHANGED <<users, sessions, devices, user_states, next_user_id, reset_tokens, now>>
    ELSE IF existing_user # {}
    THEN \E uid \in existing_user :
         \* _handle_existing_user
         IF is_unverified(uid)
         THEN /\ verification_token \in ShortTokens
              /\ IF fault = "commit"
                 THEN /\ users' = users
                      /\ HandledRolledBack(request, "commit", HTTPException(500, "Error interno del servidor"))
                 ELSE /\ users' = [users EXCEPT ![uid].name = name,
                                                ![uid].password_hash = hash_password(password),
                                                ![uid].verification_token = verification_token]
                      /\ IF fault = "send"
                         THEN HandledCommitted(request, "send",
                                      HTTPException(500, "Error interno del servidor"))
                         ELSE HandledCommitted(request, "none",
                                      create_response("success",
                                          "Hemos enviado un correo electrónico para verificar tu cuenta nuevamente",
                                          {}, 200))
              /\ UNCHANGED <<sessions, devices, user_states, next_user_id, reset_tokens, now>>
         ELSE /\ fault = "none"
              /\ verification_token = None
              /\ Handled(request, "none", create_response("error", "El correo ya está registrado", {}, 200))
              /\ UNCHANGED <<users, sessions, devices, user_states, next_user_id, reset_tokens, now>>
    ELSE \* _create_new_user
         IF user_registry_state = {}
         THEN /\ fault = "none"
              /\ verification_token = None
              /\ Handled(request, "state", HTTPException(500, "Error interno del servidor"))
              /\ UNCHANGED <<users, sessions, devices, user_states, next_user_id, reset_tokens, now>>
         ELSE \E state \in user_registry_state :
              /\ next_user_id <= MaxUsers
              /\ verification_token \in ShortTokens
              /\ IF fault = "commit"
                 THEN /\ UNCHANGED <<users, next_user_id>>
                      /\ HandledRolledBack(request, "commit", HTTPException(500, "Error interno del servidor"))
                 ELSE /\ users' = [u \in DOMAIN users \cup {next_user_id} |->
                                     IF u = next_user_id
                                     THEN [name |-> name, email |-> email,
                                           password_hash |-> hash_password(password),
                                           verification_token |-> verification_token,
                                           user_state_id |-> state.user_state_id]
                                     ELSE users[u]]
                      /\ next_user_id' = next_user_id + 1
                      /\ IF fault = "send"
                         THEN HandledCommitted(request, "send",
                                      HTTPException(500, "Error interno del servidor"))
                         ELSE HandledCommitted(request, "none",
                                      create_response("success",
                                          "Hemos enviado un correo electrónico para verificar tu cuenta",
                                          {}, 200))
              /\ UNCHANGED <<sessions, devices, user_states, reset_tokens, now>>

-----------------------------------------------------------------------------
(* use_cases/verify_email_use_case.py, UserRepository.verify_user_email *)

\* Variant that withdraws the verification of an account that already has it.
verify_user_email_withdrawing(uid, verified_state) ==
    [users EXCEPT ![uid].verification_token = None,
                  ![uid].user_state_id =
                      IF users[uid].user_state_id = verified_state.user_state_id
                      THEN 1 ELSE verified_state.user_state_id]

\* UserRepository.verify_user_email: the writes it commits
verify_user_email(uid, verified_state) ==
    [users EXCEPT ![uid].verification_token = None,
                  ![uid].user_state_id = verified_state.user_state_id]

VerifyEmail(token, fault) ==
    LET request == [BaseRequest EXCEPT !.op = "verify_email", !.token = token]
        found == find_by_verification_token(token)
        verified_state == get_user_state_by_name(VERIFIED)
    IN
    IF found = {}
    THEN /\ fault = "none"
         /\ Handled(request, "none", create_response("error", "Token inválido", {}, 200))
         /\ UNCHANGED <<users, sessions, devices, user_states, next_user_id, reset_tokens, now>>
    ELSE \E uid \in found :
         IF verified_state = {}
         THEN \* UserStateNotFoundError: nothing was written
              /\ fault = "none"
              /\ HandledRollbackOnly(request, "state",
                         create_response("error",
                             "No se encontró el estado 'Verificado' para usuarios", {}, 400))
              /\ UNCHANGED <<users, sessions, devices, user_states, next_user_id, reset_tokens, now>>
         ELSE \E state \in verified_state :
              /\ IF fault = "commit"
                 THEN /\ users' = users
                      /\ HandledRolledBack(request, "commit", HTTPException(500, "Error al verificar el correo"))
                 ELSE /\ users' = verify_user_email(uid, state)
                      \* a failing welcome email is logged and the request goes on
                      /\ HandledCommitted(request, fault,
                                 create_response("success",
                                     "Correo electrónico verificado exitosamente", {}, 200))
              /\ UNCHANGED <<sessions, devices, user_states, next_user_id, reset_tokens, now>>

-----------------------------------------------------------------------------
(* Initial state and next-state relation *)

FcmTokens == {None, "fcm-1"}

\* The users table at start-up: empty, or holding one account an administrator suspended.
SuspendedRow ==
    [name |-> "Bob", email |-> EmailPool[2], password_hash |-> hash_password(PwAbcd),
     verification_token |-> None, user_state_id |-> 3]

InitialUsers == { <<>>, <<SuspendedRow>> }

Init ==
    /\ users \in InitialUsers
    /\ next_user_id = Len(users) + 1
    /\ sessions = {}
    /\ devices = {}
    /\ user_states = AllUserStates
    /\ reset_tokens = <<>>
    /\ now = 0
    /\ last = [op |-> BaseRequest.op, token |-> None, fault |-> "none",
               response |-> NoResponse, db |-> [commits |-> 0, rollbacks |-> 0]]
    /\ threads = NoThreads

\* a confirmation that differs from the password it should repeat
Mismatch(password) == IF password = PwAbcd THEN PwNew ELSE PwAbcd

\* No request is being handled: the last reply has been returned to its caller.
Idle == [op |-> BaseRequest.op, token |-> None, fault |-> "none", response |-> NoResponse,
         db |-> [commits |-> 0, rollbacks |-> 0]]

\* The requests clients may send, with every outcome of the random generators and
\* every failure of a collaborator.  A request is taken up when the worker is idle.
Requests(emails, names, passwords, reset_passwords, tokens, session_tokens, fcm_tokens) ==
    \/ \E name \in names, email \in emails, password \in passwords,
          token \in tokens \cup {None}, fault \in {"none", "commit", "send"} :
          \E confirmation \in {password, Mismatch(password)} :
             last = Idle /\ Register(name, email, password, confirmation, token, fault)
    \/ \E token \in tokens, fault \in {"none", "commit", "welcome"} :
          last = Idle /\ VerifyEmail(token, fault)
    \/ \E email \in emails, password \in passwords, fcm_token \in fcm_tokens,
          generated \in tokens \cup (session_tokens \ {""}) \cup {None},
          fault \in {"none", "commit", "send", "device"} :
          last = Idle /\ Login(email, password, fcm_token, generated, fault)
    \/ \E session_token \in session_tokens, fault \in {"none", "commit"} :
          last = Idle /\ Logout(session_token, fault)
    \/ \E email \in emails, token \in tokens \cup {None}, fault \in {"none", "commit", "send"} :
          last = Idle /\ ForgotPassword(email, token, fault)
    \/ \E token \in tokens : last = Idle /\ VerifyResetToken(token)
    \/ \E token \in tokens, password \in reset_passwords, fault \in {"none", "commit", "remove"} :
          \E confirmation \in {password, Mismatch(password)} :
             last = Idle /\ ResetPassword(token, password, confirmation, fault)
    \/ \E session_token \in session_tokens, current \in passwords,
          password \in passwords, fault \in {"none", "commit"} :
          last = Idle /\ ChangePassword(session_token, current, password, fault)
    \/ \E session_token \in session_tokens, name \in names, fault \in {"none", "commit"} :
          last = Idle /\ UpdateProfile(session_token, name, fault)
    \/ \E session_token \in session_tokens, fault \in {"none", "commit"} :
          last = Idle /\ DeleteAccount(session_token, fault)

\* The reply reaches the caller; the worker is free for the next request.
Return ==
    /\ last # Idle
    /\ last' = Idle
    /\ UNCHANGED <<users, sessions, devices, user_states, next_user_id, reset_tokens, now,
                   threads>>

\* The clock moves on between two requests.
Tick ==
    /\ last = Idle
    /\ now + TickMinutes <= MaxNow
    /\ now' = now + TickMinutes
    /\ UNCHANGED <<users, sessions, devices, user_states, next_user_id, reset_tokens, last,
                   threads>>

\* The client repeats the reset-password call it has just been answered.
RepeatResetPassword ==
    /\ last.op = "reset_password"
    /\ \E password \in Passwords, fault \in {"none", "commit", "remove"} :
          ResetPassword(last.token, password, password, fault)

Next ==
    \/ Return
    \/ Tick
    \/ RepeatResetPassword
    \/ Requests(Emails, {"Alice", BlankName}, {PwAbcd, PwWeak}, Passwords,
                Tokens, PresentedSessionTokens, {None})

Spec == Init /\ [][Next]_vars

-----------------------------------------------------------------------------
(* One account, with every input the use-cases distinguish *)

NumAccountTokens == 2

\* values of generate_verification_token(4) drawn when one account is followed
AccountTokens == {TokenPool[i] : i \in 1..NumAccountTokens}

InitAccount ==
    /\ users = <<>>
    /\ next_user_id = 1
    /\ sessions = {}
    /\ devices = {}
    /\ user_states = AllUserStates
    /\ reset_tokens = <<>>
    /\ now = 0
    /\ last = Idle
    /\ threads = NoThreads

NextAccount ==
    \/ Return
    \/ Tick
    \/ RepeatResetPassword
    \/ Requests({EmailPool[1]}, Names \cup {BlankName}, Passwords, Passwords,
                AccountTokens, PresentedSessionTokens, FcmTokens)

SpecAccount == InitAccount /\ [][NextAccount]_vars

-----------------------------------------------------------------------------
(* A sign-up: register, verify-email, login, one after the other, after any
   requests of another client *)

SignUpEmail == EmailPool[1]
SignUpName == "Alice"
SignUpPassword == PwAbcd
\* the value generate_verification_token(4) returns to the sign-up's registration
SignUpToken == TokenPool[1]

SignUpNotStarted == find_by_email(SignUpEmail) = {}

\* requests of the other client, before the sign-up starts
SignUpBefore ==
    /\ SignUpNotStarted
    /\ \/ Return
       \/ Requests({EmailPool[2]}, {"Bob"}, {PwAbcd}, {PwNew}, AccountTokens,
                   PresentedSessionTokens, {None})

SignUpRegister ==
    /\ last = Idle
    /\ SignUpNotStarted
    /\ Register(SignUpName, SignUpEmail, SignUpPassword, SignUpPassword, SignUpToken, "none")

SignUpVerifyEmail ==
    /\ last.op = "register"
    /\ last.response.status = "success"
    /\ ~SignUpNotStarted
    /\ \E fault \in {"none", "welcome"} : VerifyEmail(SignUpToken, fault)

SignUpLogin ==
    /\ last.op = "verify_email"
    /\ last.response.status = "success"
    /\ ~SignUpNotStarted
    /\ \E fcm_token \in FcmTokens, generated \in AccountTokens \cup SessionTokens,
          fault \in {"none", "commit", "send", "device"} :
          Login(SignUpEmail, SignUpPassword, fcm_token, generated, fault)

NextSignUp ==
    \/ SignUpBefore
    \/ SignUpRegister
    \/ SignUpVerifyEmail
    \/ SignUpLogin

SpecSignUp == InitAccount /\ [][NextSignUp]_vars

-----------------------------------------------------------------------------
(* A user_states table that lacks one of its rows *)

\* the configurations of the user_states table with one row missing
IncompleteUserStates == {AllUserStates \ {s} : s \in AllUserStates}

InitConfig ==
    /\ users = <<>>
    /\ next_user_id = 1
    /\ sessions = {}
    /\ devices = {}
    /\ user_states \in IncompleteUserStates
    /\ reset_tokens = <<>>
    /\ now = 0
    /\ last = Idle
    /\ threads = NoThreads

NextConfig ==
    \/ Return
    \/ Requests({EmailPool[1]}, {"Alice"}, {PwAbcd, PwWeak}, {PwNew}, AccountTokens,
                PresentedSessionTokens, {None})

SpecConfig == InitConfig /\ [][NextConfig]_vars

-----------------------------------------------------------------------------
(* reset-password calls run by two workers at once: every read and write of
   the token store and of the database is a step of its own *)

ThreadReplied(t, response) ==
    threads' = [threads EXCEPT ![t].pc = "done", ![t].response = response]

\* the checks of the request's own fields
ResetBegin(t, token, new_password, confirm_password) ==
    /\ threads[t].pc = "idle"
    /\ IF ~passwords_match(new_password, confirm_password)
       THEN ThreadReplied(t, create_response("error", "Las contraseñas no coinciden", {}, 200))
       ELSE IF ~Truthy(is_password_strong(new_password))
       THEN ThreadReplied(t, create_response("error", WeakPasswordMessage, {}, 200))
       ELSE threads' = [threads EXCEPT ![t].pc = "is_token_valid", ![t].token = token,
                                       ![t].password = new_password]
    /\ UNCHANGED <<users, sessions, devices, user_states, next_user_id, reset_tokens, now, last>>

\* _is_token_valid
ResetCheckToken(t) ==
    /\ threads[t].pc = "is_token_valid"
    /\ LET checked == is_token_valid(reset_tokens, threads[t].token)
       IN /\ reset_tokens' = checked.store
          /\ IF checked.valid
             THEN threads' = [threads EXCEPT ![t].pc = "find_user_by_token"]
             ELSE ThreadReplied(t, create_response("error", "Token inválido o expirado", {}, 200))
    /\ UNCHANGED <<users, sessions, devices, user_states, next_user_id, now, last>>

\* _find_user_by_token
ResetFindUser(t) ==
    /\ threads[t].pc = "find_user_by_token"
    /\ LET found == find_by_verification_token(threads[t].token)
       IN IF found = {}
          THEN ThreadReplied(t, create_response("error", "Usuario no encontrado", {}, 200))
          ELSE \E uid \in found :
                  threads' = [threads EXCEPT ![t].pc = "commit", ![t].uid = uid]
    /\ UNCHANGED <<users, sessions, devices, user_states, next_user_id, reset_tokens, now, last>>

\* _update_user_password and _cleanup_token up to db.commit(): the worker's
\* own database session writes the row it loaded
ResetCommit(t) ==
    /\ threads[t].pc = "commit"
    /\ threads[t].uid \in DOMAIN users
    /\ users' = [users EXCEPT
                    ![threads[t].uid].password_hash = hash_password(threads[t].password),
                    ![threads[t].uid].verification_token = None]
    /\ threads' = [threads EXCEPT ![t].pc = "remove_token"]
    /\ UNCHANGED <<sessions, devices, user_states, next_user_id, reset_tokens, now, last>>

\* token_service.remove_token, then the success reply
ResetRemoveToken(t) ==
    /\ threads[t].pc = "remove_token"
    /\ reset_tokens' = remove_token(reset_tokens, threads[t].token)
    /\ ThreadReplied(t, create_response("success", "Contraseña restablecida exitosamente",
                                        {}, 200))
    /\ UNCHANGED <<users, sessions, devices, user_states, next_user_id, now, last>>

\* the requests handled before the two reset-password calls arrive
RaceBefore ==
    /\ threads = NoThreads
    /\ \/ Return
       \/ Requests({EmailPool[1]}, {"Alice"}, {PwAbcd}, {PwWeak}, Tokens, {""}, {None})

NextRace ==
    \/ RaceBefore
    \/ \E t \in Threads, token \in Tokens, new_password \in Passwords :
          \E confirm_password \in {new_password, Mismatch(new_password)} :
             ResetBegin(t, token, new_password, confirm_password)
    \/ \E t \in Threads : ResetCheckToken(t)
    \/ \E t \in Threads : ResetFindUser(t)
    \/ \E t \in Threads : ResetCommit(t)
    \/ \E t \in Threads : ResetRemoveToken(t)

SpecRace == InitAccount /\ [][NextRace]_vars

-----------------------------------------------------------------------------
(* One account whose tokens are told apart by who issued them: registration
   and login draw one value, forgot-password draws another *)

\* the value generate_verification_token(4) returns to registration and login
RegistrationToken == TokenPool[1]
\* the value generate_verification_token(4) returns to forgot-password
ForgotPasswordToken == TokenPool[2]

NextIssued ==
    \/ Return
    \/ \E token \in {RegistrationToken, None}, fault \in {"none", "commit", "send"} :
          last = Idle /\ Register("Alice", EmailPool[1], PwAbcd, PwAbcd, token, fault)
    \/ \E token \in {RegistrationToken, ForgotPasswordToken},
          fault \in {"none", "commit", "welcome"} :
          last = Idle /\ VerifyEmail(token, fault)
    \/ \E generated \in {RegistrationToken, None} \cup SessionTokens,
          fault \in {"none", "commit", "send"} :
          last = Idle /\ Login(EmailPool[1], PwAbcd, None, generated, fault)
    \/ \E token \in {ForgotPasswordToken, None}, fault \in {"none", "commit", "send"} :
          last = Idle /\ ForgotPassword(EmailPool[1], token, fault)
    \/ \E token \in {RegistrationToken, ForgotPasswordToken},
          fault \in {"none", "commit", "remove"} :
          last = Idle /\ ResetPassword(token, PwWeak, PwWeak, fault)

SpecIssued == InitAccount /\ [][NextIssued]_vars

-----------------------------------------------------------------------------
(* Properties *)

ResetSucceeded ==
    create_response("success", "Contraseña restablecida exitosamente", {}, 200)

TokenInvalidOrExpired == create_response("error", "Token inválido o expirado", {}, 200)

\* C1: once a reset-password request with token X has returned success, X is
\* no longer valid, and a reset-password request that repeats X with a strong
\* password equal to its confirmation is answered "Token inválido o expirado"
\* and changes no password.
C1_UsedTokenIsRefused ==
    [][\A password \in StrongPasswords :
          ( /\ last.op = "reset_password"
            /\ last.response = ResetSucceeded
            /\ ResetPassword(last.token, password, password, "none") )
          => /\ ~is_token_valid(reset_tokens, last.token).valid
             /\ last'.response = TokenInvalidOrExpired
             /\ \A uid \in DOMAIN users :
                   users'[uid].password_hash = users[uid].password_hash]_vars

\* C2 as stated: a stored token checked at time now is valid exactly when now
\* is strictly before the expiry t0 + T (so a check at t0 + T itself fails).
C2_ValidStrictlyBeforeExpiry ==
    [][\A token \in Tokens :
          (token \in DOMAIN reset_tokens /\ VerifyResetToken(token))
          => (last'.response.status = "success"
                <=> now < reset_tokens[token].expires_at)]_vars

\* C2, amended: a token issued at t0 with a lifetime of T minutes is stored
\* with expiry t0 + T; a check of a stored token at time now answers valid
\* when now <= t0 + T (the instant t0 + T included) and invalid when
\* now > t0 + T.
C2_ValidUntilExpiryInclusive ==
    [][/\ \A email \in Emails, token \in Tokens, fault \in {"none", "commit", "send"} :
             (find_by_email(email) # {} /\ ForgotPassword(email, token, fault))
             => /\ token \in DOMAIN reset_tokens'
                /\ reset_tokens'[token].expires_at = now + ExpirationMinutes
       /\ \A token \in Tokens :
             (token \in DOMAIN reset_tokens /\ VerifyResetToken(token))
             => (last'.response.status = "success"
                   <=> now <= reset_tokens[token].expires_at)]_vars

\* a check made at the very instant of expiry was answered "valid"
C2_CheckedAtExpiry ==
    /\ last.op = "verify_reset_token"
    /\ last.response.status = "success"
    /\ last.token \in DOMAIN reset_tokens
    /\ reset_tokens[last.token].expires_at = now

\* C3: every session a step creates belongs to an account that is Verified
\* in the state the login started from; a login that finds the account
\* Unverified or Suspended creates none.
C3_SessionsOnlyForVerified ==
    [][\A s \in sessions' \ sessions :
          /\ last'.op = "login"
          /\ s.user_id \in DOMAIN users
          /\ StateNameOf(users[s.user_id]) = VERIFIED]_vars

\* a Suspended account logged in with its correct password and got no session
C3_SuspendedLoginRefused ==
    /\ last.op = "login"
    /\ last.response.message = "Debes verificar tu correo antes de iniciar sesión"
    /\ \E uid \in DOMAIN users :
          /\ StateNameOf(users[uid]) = SUSPENDED
          /\ users[uid].verification_token # None
          /\ ~\E s \in sessions : s.user_id = uid

\* C4: no step takes an account from Suspended to another state; verify-email
\* with the token a Suspended account holds leaves it Suspended.
C4_SuspendedStaysSuspended ==
    [][\A uid \in DOMAIN users :
          (StateNameOf(users[uid]) = SUSPENDED /\ uid \in DOMAIN users')
          => StateNameOf(users'[uid]) = SUSPENDED]_vars

\* C5: reset-password never stores a password that breaks a strength rule.
C5_ResetNeverStoresWeakPassword ==
    [][\A uid \in DOMAIN users :
          ( /\ last'.op = "reset_password"
            /\ uid \in DOMAIN users'
            /\ users'[uid].password_hash # users[uid].password_hash )
          => validate_password_strength(users'[uid].password_hash.plain) = None]_vars

\* C6: a reset-password request carrying the token forgot-password issued to
\* an account (stored, unexpired, held by that account alone), with a strong
\* password equal to its confirmation, returns success and the account's
\* stored password becomes the new one.
C6_ResetWithIssuedTokenSucceeds ==
    [][\A token \in Tokens, password \in StrongPasswords, uid \in DOMAIN users :
          ( /\ token \in DOMAIN reset_tokens
            /\ now < reset_tokens[token].expires_at
            /\ reset_tokens[token].email = users[uid].email
            /\ find_by_verification_token(token) = {uid}
            /\ ResetPassword(token, password, password, "none") )
          => /\ last'.response = ResetSucceeded
             /\ verify_password(password, users'[uid].password_hash)]_vars

\* C7: when removing the store entry fails during reset-password the request
\* ends in a 500 error and every account keeps the password hash and the
\* token field it had before the request.
C7_RemoveFailureRollsBack ==
    [][(last'.op = "reset_password" /\ last'.fault = "remove")
          => /\ last'.response.status_code = 500
             /\ \A uid \in DOMAIN users :
                   /\ users'[uid].password_hash = users[uid].password_hash
                   /\ users'[uid].verification_token = users[uid].verification_token]_vars

\* C8: when forgot-password fails after the token was issued (the email
\* cannot be sent, or the commit fails) the request ends in a 500 error and
\* every account's persisted verification_token is what it was before.
C8_ForgotFailureRestoresToken ==
    [][(last'.op = "forgot_password" /\ last'.fault \in {"send", "commit"})
          => /\ last'.response.status_code = 500
             /\ \A uid \in DOMAIN users :
                   users'[uid].verification_token = users[uid].verification_token]_vars

\* C9: the session token a successful login returns resolves to exactly the
\* account that logged in; after a successful logout with a token, that
\* token resolves to no account.
C9_LoginTokenResolvesUntilLogout ==
    [][/\ \A email \in Emails, password \in Passwords, fcm_token \in FcmTokens,
            generated \in SessionTokens :
             ( /\ Login(email, password, fcm_token, generated, "none")
               /\ last'.response.status = "success" )
             => /\ verify_session_token(generated)' = find_by_email(email)
                /\ Cardinality(find_by_email(email)) = 1
       /\ \A session_token \in SessionTokens :
             ( /\ Logout(session_token, "none")
               /\ last'.response.status = "success" )
             => verify_session_token(session_token)' = {}]_vars

\* a login has just returned a token that resolves to one of two accounts,
\* the other of which holds a session of its own
C9_TokenResolvesAmongTwoAccounts ==
    /\ last.op = "login"
    /\ last.response.status = "success"
    /\ \E p \in last.response.data :
          /\ p[1] = "session_token"
          /\ Cardinality(verify_session_token(p[2])) = 1
          /\ \E s \in sessions : s.user_id \notin verify_session_token(p[2])

\* C10: change-password, update-profile, delete-account and logout, called
\* with a session token no session row carries (never issued, destroyed, or
\* the empty string), all answer with the same 401 envelope and change no
\* account, session, device or reset-token state.
C10_UnknownSessionTokenRefusedUniformly ==
    [][\A session_token \in PresentedSessionTokens :
          ( /\ ~\E s \in sessions : s.session_token = session_token
            /\ \/ \E current \in Passwords, password \in Passwords :
                     ChangePassword(session_token, current, password, "none")
               \/ \E name \in Names \cup {BlankName} :
                     UpdateProfile(session_token, name, "none")
               \/ DeleteAccount(session_token, "none")
               \/ Logout(session_token, "none") )
          => /\ last'.response = session_token_invalid_response
             /\ last'.response.status_code = 401
             /\ UNCHANGED <<users, sessions, devices, reset_tokens>>]_vars

\* change-password was refused with the 401 envelope while another session
\* token was live
C10_RefusedWhileASessionIsLive ==
    /\ last.op = "change_password"
    /\ last.response = session_token_invalid_response
    /\ sessions # {}

IncorrectCredentials == create_response("error", "Credenciales incorrectas", {}, 200)

\* C11: a login with an email no account has and a login with an existing
\* email and a wrong password get the same "Credenciales incorrectas"
\* envelope, whatever the account's state; neither creates a session, changes
\* a verification token or writes anything.
C11_UnknownEmailAndWrongPasswordAlike ==
    [][last'.op = "login" =>
       \A email \in Emails, password \in Passwords, fcm_token \in FcmTokens,
          generated \in Tokens \cup SessionTokens \cup {None},
          fault \in {"none", "commit", "send", "device"} :
          ( /\ \A uid \in find_by_email(email) :
                  ~verify_password(password, users[uid].password_hash)
            /\ Login(email, password, fcm_token, generated, fault) )
          => /\ last'.response = IncorrectCredentials
             /\ UNCHANGED <<users, sessions, devices, reset_tokens>>]_vars

\* a login was refused with "Credenciales incorrectas" while the only account
\* is a Verified one: the reply to an unknown email and to a wrong password
C11_RefusedBesideAVerifiedAccount ==
    /\ last.op = "login"
    /\ last.response = IncorrectCredentials
    /\ \E uid \in DOMAIN users :
          /\ DOMAIN users = {uid}
          /\ StateNameOf(users[uid]) = VERIFIED

\* C12: when an account that is not Verified logs in with its correct
\* password and the new verification email cannot be sent, the caller gets a
\* 500 error, no session is created and the newly generated token is the one
\* persisted on the account.
C12_SendFailureKeepsNewToken ==
    [][last'.op = "login" =>
       \A email \in Emails, password \in Passwords, fcm_token \in FcmTokens,
          generated \in Tokens :
          Login(email, password, fcm_token, generated, "send")
          => /\ last'.response.kind = "HTTPException"
             /\ last'.response.status_code = 500
             /\ sessions' = sessions
             /\ \A uid \in find_by_email(email) :
                   /\ StateNameOf(users[uid]) # VERIFIED
                   /\ users'[uid].verification_token = generated]_vars

\* the login of a Suspended account ended in a 500 because the email could
\* not be sent; the account holds a token and has no session
C12_TokenKeptAfterSendFailure ==
    /\ last.op = "login"
    /\ last.fault = "send"
    /\ last.response.status_code = 500
    /\ \E uid \in DOMAIN users :
          /\ StateNameOf(users[uid]) = SUSPENDED
          /\ users[uid].verification_token \in Tokens
          /\ ~\E s \in sessions : s.user_id = uid

TokenValid ==
    create_response("success", "Token válido. Puede proceder a restablecer la contraseña.",
                    {}, 200)

\* C13: a validity check of a token without an entry answers invalid and
\* leaves the store as it is; of an entry whose expires_at is before the
\* current time it answers invalid and deletes that entry and no other;
\* otherwise it answers valid and leaves the store as it is.
C13_CheckDeletesOnlyTheExpiredEntry ==
    [][last'.op = "verify_reset_token" =>
       \A token \in AccountTokens :
          VerifyResetToken(token)
          => IF token \notin DOMAIN reset_tokens
             THEN /\ last'.response = TokenInvalidOrExpired
                  /\ reset_tokens' = reset_tokens
             ELSE IF now > reset_tokens[token].expires_at
             THEN /\ last'.response = TokenInvalidOrExpired
                  /\ DOMAIN reset_tokens' = DOMAIN reset_tokens \ {token}
                  /\ \A t \in DOMAIN reset_tokens' : reset_tokens'[t] = reset_tokens[t]
             ELSE /\ last'.response = TokenValid
                  /\ reset_tokens' = reset_tokens]_vars

\* a check has just answered invalid for a token that is no longer stored,
\* while another entry, itself past its expiry, is still in the store
C13_OtherExpiredEntryKept ==
    /\ last.op = "verify_reset_token"
    /\ last.response = TokenInvalidOrExpired
    /\ last.token \notin DOMAIN reset_tokens
    /\ \E uid \in DOMAIN users : users[uid].verification_token = last.token
    /\ \E t \in DOMAIN reset_tokens : now > reset_tokens[t].expires_at

PasswordsDoNotMatch == create_response("error", "Las contraseñas no coinciden", {}, 200)

\* C14: reset-password reports the first check that fails, in the order
\* password-match, strength, token validity, account lookup; a mismatch is
\* reported without consulting the token store or writing anything.
C14_FirstFailingCheckReported ==
    [][last'.op = "reset_password" =>
       \A token \in AccountTokens, password \in Passwords, confirm_password \in Passwords :
          ResetPassword(token, password, confirm_password, "none")
          => IF password # confirm_password
             THEN /\ last'.response = PasswordsDoNotMatch
                  /\ UNCHANGED <<users, reset_tokens>>
             ELSE IF validate_password_strength(password) # None
             THEN /\ last'.response = create_response("error", WeakPasswordMessage, {}, 200)
                  /\ UNCHANGED <<users, reset_tokens>>
             ELSE IF ~is_token_valid(reset_tokens, token).valid
             THEN /\ last'.response = TokenInvalidOrExpired
                  /\ UNCHANGED users
             ELSE find_by_verification_token(token) = {}
                  => /\ last'.response.message = "Usuario no encontrado"
                     /\ UNCHANGED <<users, reset_tokens>>]_vars

\* C14, the mismatch case alone: whatever the password's strength and the
\* token's state, differing passwords get "Las contraseñas no coinciden", and
\* neither the store (an expired entry included) nor any account changes.
C14_MismatchReportedFirst ==
    [][last'.op = "reset_password" =>
       \A token \in AccountTokens, password \in Passwords, confirm_password \in Passwords :
          (password # confirm_password
             /\ ResetPassword(token, password, confirm_password, "none"))
          => /\ last'.response = PasswordsDoNotMatch
             /\ UNCHANGED <<users, sessions, devices, reset_tokens>>]_vars

\* C15: a session token keeps resolving to the same account across every
\* step, except a successful logout with that token and the deletion of the
\* account that owns it.
C15_SessionResolvesUntilDestroyed ==
    [][\A s \in sessions :
          \/ /\ verify_session_token(s.session_token) = {s.user_id}
             /\ verify_session_token(s.session_token)' = {s.user_id}
          \/ /\ last'.op = "logout"
             /\ Logout(s.session_token, "none")
          \/ /\ last'.op = "delete_account"
             /\ s.user_id \notin DOMAIN users']_vars

\* an account has just changed its password and a session issued before
\* still resolves to it
C15_SessionOutlivesPasswordChange ==
    /\ last.op = "change_password"
    /\ last.response.status = "success"
    /\ \E s \in sessions : verify_session_token(s.session_token) = {s.user_id}

\* C16: after delete-account succeeds the account is no longer found by its
\* email, every session token that belonged to it resolves to no account,
\* and no session row refers to an account that does not exist.
C16_DeletedAccountLeavesNoSession ==
    [][last'.op = "delete_account" =>
       \A session_token \in SessionTokens :
          ( /\ DeleteAccount(session_token, "none")
            /\ last'.response.status = "success" )
          => /\ \A uid \in verify_session_token(session_token) :
                   /\ uid \notin DOMAIN users'
                   /\ \A email \in {users[uid].email} : find_by_email(email)' = {}
                   /\ \A s \in sessions :
                         s.user_id = uid => verify_session_token(s.session_token)' = {}
             /\ \A s \in sessions' : s.user_id \in DOMAIN users']_vars

\* an account has just been deleted while another account keeps its session
C16_DeletedBesideALiveSession ==
    /\ last.op = "delete_account"
    /\ last.response.status = "success"
    /\ \E s \in sessions : verify_session_token(s.session_token) = {s.user_id}


\* C17: a successful logout deletes exactly the session whose token was
\* supplied; every other session, those of the same account included, still
\* resolves to its owner, and the account rows are unchanged.
C17_LogoutDeletesOnlyThatSession ==
    [][last'.op = "logout" =>
       \A session_token \in SessionTokens :
          ( /\ Logout(session_token, "none")
            /\ last'.response.status = "success" )
          => /\ sessions' = {s \in sessions : s.session_token # session_token}
             /\ sessions' # sessions
             /\ \A s \in sessions :
                   s.session_token # session_token
                   => /\ verify_session_token(s.session_token) = {s.user_id}
                      /\ verify_session_token(s.session_token)' = {s.user_id}
             /\ users' = users]_vars

\* the only account has logged out of one session and still holds another
C17_OtherSessionOfSameAccountLive ==
    /\ last.op = "logout"
    /\ last.response.status = "success"
    /\ Cardinality(DOMAIN users) = 1
    /\ \E s \in sessions : verify_session_token(s.session_token) = DOMAIN users


EmailAlreadyRegistered == create_response("error", "El correo ya está registrado", {}, 200)

TokenInvalid == create_response("error", "Token inválido", {}, 200)

\* what the claim says of one verify-email step that carried `token`
VerifyEmailAsClaimed(token) ==
    IF find_by_verification_token(token) = {}
    THEN /\ last'.response = TokenInvalid
         /\ users' = users
    ELSE \A uid \in find_by_verification_token(token) :
            ( /\ StateNameOf(users[uid]) = UNVERIFIED
              /\ last'.fault # "commit" )
            => /\ StateNameOf(users'[uid]) = VERIFIED
               /\ users'[uid].verification_token = None
               \* so a second verify-email with the token finds no account
               /\ find_by_verification_token(token)' = {}

\* C19: verify-email with a token that no account holds returns "Token
\* inválido" and changes no account; with a token an Unverified account holds
\* it sets that account to Verified and clears its token, so that a second
\* verify-email with the same token finds no account.
C19_VerifyEmailConsumesToken ==
    [][last'.op = "verify_email" =>
       \A token \in Tokens, fault \in {last'.fault} :
          VerifyEmail(token, fault) => VerifyEmailAsClaimed(token)]_vars

\* C19, supplementary: the same, for a token that at most one account holds.
C19_VerifyEmailConsumesTokenHeldOnce ==
    [][last'.op = "verify_email" =>
       \A token \in Tokens, fault \in {last'.fault} :
          ( /\ VerifyEmail(token, fault)
            /\ Cardinality(find_by_verification_token(token)) <= 1 )
          => VerifyEmailAsClaimed(token)]_vars


\* the login of the sign-up has just been answered without a failure of the
\* database or of a collaborator
SignUpLoginAnswered ==
    /\ last.op = "verify_email"
    /\ last.response.status = "success"
    /\ ~SignUpNotStarted
    /\ last'.op = "login"
    /\ last'.fault = "none"

SignUpLoginSucceeded ==
    /\ last'.response.status = "success"
    /\ \E generated \in SessionTokens :
          /\ last'.response.data = {<<"session_token", generated>>, <<"name", SignUpName>>}
          /\ verify_session_token(generated)' = find_by_email(SignUpEmail)

\* C20: after a successful registration of an unused email, answered with
\* verification token T, and a successful verify-email(T) straight after it,
\* a login with the registered email and password succeeds and returns a
\* session token together with the registered name.
C20_SignUpThenLoginSucceeds ==
    [][SignUpLoginAnswered => SignUpLoginSucceeded]_vars

\* C20, supplementary: the same, when the verify-email verified the
\* registered account.
C20_LoginSucceedsOnceVerified ==
    [][( /\ SignUpLoginAnswered
         /\ \A uid \in find_by_email(SignUpEmail) : StateNameOf(users[uid]) = VERIFIED )
       => SignUpLoginSucceeded]_vars

\* the sign-up's login has succeeded beside another account
C20_SignedUpBesideAnotherAccount ==
    /\ last.op = "login"
    /\ last.response.status = "success"
    /\ \E generated \in SessionTokens :
          verify_session_token(generated) = find_by_email(SignUpEmail)
    /\ Cardinality(DOMAIN users) = 2


MutatingUseCases ==
    {"register", "verify_email", "login", "logout", "forgot_password", "reset_password",
     "change_password", "update_profile", "delete_account"}

\* C21: every use-case that changes persistent state commits exactly once
\* on each path that returns success and rolls back exactly once on each
\* path that ends with an exception.
C21_OneCommitOrOneRollback ==
    last.op \in MutatingUseCases
    => /\ last.response.status = "success"
          => last.db.commits = 1 /\ last.db.rollbacks = 0
       /\ last.response.kind = "HTTPException" => last.db.rollbacks = 1

\* C21, supplementary: the success paths commit exactly once and never roll back.
C21_SuccessCommitsOnce ==
    ( /\ last.op \in MutatingUseCases
      /\ last.response.status = "success" )
    => last.db.commits = 1 /\ last.db.rollbacks = 0


\* a failing welcome email leaves verify-email successful, an account verified
WelcomeFailureSwallowed ==
    \A token \in AccountTokens :
       VerifyEmail(token, "welcome")
       => /\ last'.response.status = "success"
          /\ \E uid \in find_by_verification_token(token) :
                /\ StateNameOf(users'[uid]) = VERIFIED
                /\ users'[uid].verification_token = None

\* a failing device registration leaves the login successful, its session kept
DeviceFailureSwallowed ==
    \A email \in Emails, password \in Passwords, fcm_token \in FcmTokens,
       generated \in SessionTokens :
       Login(email, password, fcm_token, generated, "device")
       => /\ last'.response.status = "success"
          /\ verify_session_token(generated)' = find_by_email(email)

\* C22: a failure of a best-effort side effect changes neither the reply nor
\* what is persisted: verify-email still succeeds with the account Verified
\* when the welcome email fails, and a login with correct credentials on a
\* Verified account still succeeds with a persisted session when registering
\* the device fails.
C22_BestEffortFailuresSwallowed ==
    [][last'.fault \in {"welcome", "device"}
       => WelcomeFailureSwallowed /\ DeviceFailureSwallowed]_vars

\* C22, supplementary: the welcome-email half.
C22_WelcomeFailureSwallowed ==
    [][last'.fault = "welcome" => WelcomeFailureSwallowed]_vars


\* what the claim says of one change-password step
ChangePasswordAsClaimed(session_token, current_password, new_password) ==
    LET resolved == verify_session_token(session_token)
        matches == \A uid \in resolved :
                      users[uid].password_hash = hash_password(current_password)
        strong == new_password \in StrongPasswords
        kept == users' = users /\ last'.db.commits = 0
    IN
    IF resolved = {}
    THEN kept /\ last'.response = session_token_invalid_response
    ELSE IF ~matches
    THEN kept /\ last'.response = IncorrectCredentials
    ELSE IF ~strong
    THEN /\ kept
         /\ last'.response.status = "error"
         /\ last'.response.message = validate_password_strength(new_password)
    ELSE IF last'.fault = "none"
    THEN /\ last'.response.status = "success"
         /\ last'.db.commits = 1
         /\ \A uid \in resolved :
               users' = [users EXCEPT ![uid].password_hash = hash_password(new_password)]
    ELSE users' = users

\* C23: change-password replaces the stored password only when the session
\* resolves, the current password matches the stored hash and the new
\* password is strong, checked in that order; when a check fails the stored
\* password is unchanged and nothing is committed, and a wrong current
\* password gets "Credenciales incorrectas", not the 401 reply.
C23_ChangePasswordChecksInOrder ==
    [][last'.op = "change_password" =>
       \A session_token \in PresentedSessionTokens, current_password \in Passwords,
          new_password \in Passwords, fault \in {last'.fault} :
          ChangePassword(session_token, current_password, new_password, fault)
          => ChangePasswordAsClaimed(session_token, current_password, new_password)]_vars

\* a wrong current password was answered "Credenciales incorrectas", with
\* nothing committed, for an account whose password had been replaced before
C23_WrongCurrentPasswordRefused ==
    /\ last.op = "change_password"
    /\ last.response = IncorrectCredentials
    /\ last.db.commits = 0
    /\ sessions # {}
    /\ \A uid \in DOMAIN users : users[uid].password_hash = hash_password(PwNew)


\* the reply is a failure surfaced to the caller: an exception or an error status code
ConfigurationErrorSurfaced ==
    /\ last'.response.status # "success"
    /\ \/ last'.response.kind = "HTTPException"
       \/ last'.response.status_code >= 400
    /\ users' = users

LoginWithoutVerifiedState ==
    \A email \in Emails, password \in Passwords,
       generated \in AccountTokens \cup SessionTokens, fault \in {last'.fault} :
       ( /\ Login(email, password, None, generated, fault)
         /\ \E uid \in find_by_email(email) :
               users[uid].password_hash = hash_password(password)
         /\ get_user_state_by_name(VERIFIED) = {} )
       => ConfigurationErrorSurfaced

VerifyEmailWithoutVerifiedState ==
    \A token \in AccountTokens, fault \in {last'.fault} :
       ( /\ VerifyEmail(token, fault)
         /\ find_by_verification_token(token) # {}
         /\ get_user_state_by_name(VERIFIED) = {} )
       => ConfigurationErrorSurfaced

RegisterWithoutUnverifiedState ==
    \A name \in Names, email \in Emails, password \in StrongPasswords, fault \in {last'.fault} :
       ( /\ Register(name, email, password, password, None, fault)
         /\ find_by_email(email) = {}
         /\ get_user_state_by_name(UNVERIFIED) = {} )
       => ConfigurationErrorSurfaced

\* C24: when the state row a use-case needs (Verified for login and
\* verify-email, Unverified for registration) is missing, the use-case fails
\* with an error surfaced to the caller and changes no account; it is never
\* answered as an ordinary outcome.
C24_MissingStateRowIsFatal ==
    [][last'.op \in {"login", "verify_email", "register"}
       => /\ LoginWithoutVerifiedState
          /\ VerifyEmailWithoutVerifiedState
          /\ RegisterWithoutUnverifiedState]_vars

\* C24, supplementary: verify-email and registration.
C24_VerifyEmailAndRegisterFailFatally ==
    [][last'.op \in {"verify_email", "register"}
       => /\ VerifyEmailWithoutVerifiedState
          /\ RegisterWithoutUnverifiedState]_vars

\* registration was refused for want of the Unverified row
C24_RegisterRefusedWithoutState ==
    /\ last.op = "register"
    /\ last.fault = "state"
    /\ get_user_state_by_name(UNVERIFIED) = {}

\* verify-email was refused for want of the Verified row
C24_VerifyEmailRefusedWithoutState ==
    /\ last.op = "verify_email"
    /\ last.fault = "state"
    /\ get_user_state_by_name(VERIFIED) = {}


\* C25: once an account is Verified, no request puts it back into Unverified.
C25_VerifiedNeverUnverifiedAgain ==
    [][\A uid \in DOMAIN users \cap DOMAIN users' :
          StateNameOf(users[uid]) = VERIFIED => StateNameOf(users'[uid]) # UNVERIFIED]_vars

\* the only account, Verified since it logged in, has just reset its password
C25_VerifiedAfterResetPassword ==
    /\ last.op = "reset_password"
    /\ last.response.status = "success"
    /\ Cardinality(DOMAIN users) = 1
    /\ sessions # {}
    /\ \A uid \in DOMAIN users : StateNameOf(users[uid]) = VERIFIED


\* C26: under any interleaving, at most one reset-password call per issued
\* reset token returns success.
C26_AtMostOneResetPerToken ==
    \A t1, t2 \in Threads :
       ( /\ t1 # t2
         /\ threads[t1].token = threads[t2].token
         /\ threads[t1].response.status = "success" )
       => threads[t2].response.status # "success"

\* C26, supplementary: a call that checks the token after another call with
\* the same token has replied success is refused.
C26_LaterCallRefused ==
    [][\A t1, t2 \in Threads :
          ( /\ t1 # t2
            /\ threads[t1].response.status = "success"
            /\ threads[t2].pc = "is_token_valid"
            /\ threads[t2].token = threads[t1].token
            /\ threads'[t2] # threads[t2] )
          => threads'[t2].response =
                create_response("error", "Token inválido o expirado", {}, 200)]_vars


\* C27: a successful reset-password with token T changes the row of exactly
\* the account whose email the reset-token store holds for T, and of no
\* other account, whatever other account's verification_token equals T.
C27_ResetChangesTheRecordedAccount ==
    [][( /\ last'.op = "reset_password"
         /\ last'.response.status = "success" )
       => \A token \in {last'.token} :
             /\ token \in DOMAIN reset_tokens
             /\ \A uid \in DOMAIN users :
                   users'[uid] # users[uid]
                   => users[uid].email = reset_tokens[token].email
             /\ \E uid \in DOMAIN users :
                   /\ users[uid].email = reset_tokens[token].email
                   /\ users'[uid] # users[uid]]_vars


\* C28: verify-email never succeeds with a token that forgot-password issued.
C28_ResetTokenNeverVerifiesEmail ==
    ~ ( /\ last.op = "verify_email"
        /\ last.token = ForgotPasswordToken
        /\ last.response.status = "success" )

\* C28, supplementary: a verify-email that succeeds carried a token of
\* registration or login, or one forgot-password wrote to the row.
C28_VerifyEmailSucceedsWithRowToken ==
    [][( /\ last'.op = "verify_email"
         /\ last'.response.status = "success" )
       => \E uid \in DOMAIN users :
             /\ users[uid].verification_token = last'.token
             /\ users'[uid].verification_token = None]_vars


\* the account the store entry of `token` stands for: its email is the
\* entry's and its row holds the token
EntryHolders(token) ==
    {uid \in DOMAIN users :
        /\ users[uid].email = reset_tokens[token].email
        /\ users[uid].verification_token = token}

\* C29: between requests, every unexpired entry T -> email of the
\* reset-token store has an existing account with that email whose
\* verification_token is T.
C29_StoreEntriesHaveTheirAccount ==
    last = Idle
    => \A token \in DOMAIN reset_tokens :
          now <= reset_tokens[token].expires_at => EntryHolders(token) # {}

\* a login of the unverified account has replaced the token on its row
\* while the store still holds the unexpired reset token
C29_LoginReplacedTheResetToken ==
    /\ last.op = "login"
    /\ last.fault = "none"
    /\ last.response.message = "Debes verificar tu correo antes de iniciar sesión"
    /\ \E token \in DOMAIN reset_tokens :
          /\ now <= reset_tokens[token].expires_at
          /\ EntryHolders(token) = {}
          /\ \E uid \in DOMAIN users :
                /\ users[uid].email = reset_tokens[token].email
                /\ users[uid].verification_token \notin {token, None}


\* a login without failures on a Verified account succeeds exactly with the
\* password the row stores, and is otherwise answered "Credenciales incorrectas"
LoginAcceptsStoredPassword ==
    ( last'.op = "login" /\ last'.fault = "none" )
    => \A email \in Emails, password \in Passwords, fcm_token \in FcmTokens,
          generated \in SessionTokens \cup {None} :
          Login(email, password, fcm_token, generated, "none")
          => \A uid \in find_by_email(email) :
                StateNameOf(users[uid]) = VERIFIED
                => IF users[uid].password_hash = hash_password(password)
                   THEN last'.response.status = "success"
                   ELSE last'.response = IncorrectCredentials

\* the password a row stores is set by a successful register, reset-password
\* or change-password, and by nothing else
StoredPasswordSetBySuccess ==
    ( \E uid \in DOMAIN users' :
         \/ uid \notin DOMAIN users
         \/ users'[uid].password_hash # users[uid].password_hash )
    => /\ last'.op \in {"register", "reset_password", "change_password"}
       /\ last'.response.status = "success"

\* C30: for a Verified account, login with password P succeeds if and only
\* if P is the password most recently set for it by a successful register,
\* reset-password or change-password; every earlier password is answered
\* "Credenciales incorrectas".
C30_LoginAcceptsLastSetPassword ==
    [][LoginAcceptsStoredPassword /\ StoredPasswordSetBySuccess]_vars

\* C30, supplementary: login compares with the stored password.
C30_LoginAcceptsStoredPassword ==
    [][LoginAcceptsStoredPassword]_vars

\* a login with the password the account registered with was refused after
\* a reset-password had replaced it
C30_EarlierPasswordRefused ==
    /\ last.op = "login"
    /\ last.response = IncorrectCredentials
    /\ Cardinality(DOMAIN users) = 1
    /\ \A uid \in DOMAIN users :
          /\ StateNameOf(users[uid]) = VERIFIED
          /\ users[uid].password_hash = hash_password(PwWeak)


\* a reset-password that ended with an exception has replaced the password
\* of a Verified account
C30_FailedResetReplacedPassword ==
    /\ last.op = "reset_password"
    /\ last.fault = "remove"
    /\ last.response.kind = "HTTPException"
    /\ Cardinality(DOMAIN users) = 1
    /\ \A uid \in DOMAIN users :
          /\ StateNameOf(users[uid]) = VERIFIED
          /\ users[uid].password_hash = hash_password(PwWeak)

====
